---- MODULE Spec2Model ----
(***************************************************************************)
(* ThermoSim-EPL: gas models (src/src/gas_models.py,                       *)
(* src/src/transformations.py) and cycle engines (src/src/cycles.py).      *)
(*                                                                         *)
(* Numbers.  A Python float is modelled by an exact rational <<p, q>>,     *)
(* q > 0, in lowest terms: rounding is abstracted away, so "equal" below   *)
(* reads "equal up to floating rounding" on the program.  Two further      *)
(* values share the representation, with q = 0:                            *)
(*   NonFinite  an inf or nan produced by numpy arithmetic (numpy warns    *)
(*              and goes on where pure Python floats raise);               *)
(*   Raised     the marker of a Python exception raised while evaluating   *)
(*              an expression; it aborts the enclosing method.             *)
(* Exponents (gamma, gamma - 1) are integer valued, so that x ** e is      *)
(* exact; x ** e with a fractional e is outside the model.                 *)
(***************************************************************************)
EXTENDS Integers, Sequences, FiniteSets, TLC

(***************************************************************************)
(* Exact rational arithmetic                                               *)
(***************************************************************************)
AbsInt(i) == IF i < 0 THEN 0 - i ELSE i

RECURSIVE GCD(_, _)
GCD(x, y) == IF y = 0 THEN x ELSE GCD(y, x % y)

Norm(p, q) ==
    LET g == GCD(AbsInt(p), AbsInt(q))
        s == IF q < 0 THEN 0 - 1 ELSE 1
    IN  <<s * (p \div g), s * (q \div g)>>

Q(i) == <<i, 1>>

NonFinite == <<1, 0>>
Raised == <<0, 0>>

IsNum(x) == x[2] > 0
IsRaised(x) == x = Raised

\* The outcome of an operation on operands of which one is no number.
Bad(x, y) == IF IsRaised(x) \/ IsRaised(y) THEN Raised ELSE NonFinite

Add(x, y) ==
    IF ~(IsNum(x) /\ IsNum(y)) THEN Bad(x, y)
    ELSE LET g == GCD(x[2], y[2])
         IN  Norm(x[1] * (y[2] \div g) + y[1] * (x[2] \div g), (x[2] \div g) * y[2])

Neg(x) == IF IsNum(x) THEN <<0 - x[1], x[2]>> ELSE x

Sub(x, y) == Add(x, Neg(y))

Mul(x, y) ==
    IF ~(IsNum(x) /\ IsNum(y)) THEN Bad(x, y)
    ELSE LET g1 == GCD(AbsInt(x[1]), y[2])
             g2 == GCD(AbsInt(y[1]), x[2])
         IN  Norm((x[1] \div g1) * (y[1] \div g2), (x[2] \div g2) * (y[2] \div g1))

\* x / y.  np is TRUE when an operand is a numpy scalar or array: numpy then
\* yields inf or nan for a zero divisor, where two Python floats raise
\* ZeroDivisionError.
Div(x, y, np) ==
    IF ~(IsNum(x) /\ IsNum(y)) THEN Bad(x, y)
    ELSE IF y[1] = 0 THEN (IF np THEN NonFinite ELSE Raised)
    ELSE Mul(x, Norm(y[2], y[1]))

\* x ** e for an integer-valued exponent e >= 0 (0.0 ** 0 is 1.0 in Python).
RECURSIVE PowInt(_, _)
PowInt(x, k) == IF k = 0 THEN Q(1) ELSE Mul(x, PowInt(x, k - 1))

Pow(x, e) == IF ~(IsNum(x) /\ IsNum(e)) THEN Bad(x, e) ELSE PowInt(x, e[1])

Lt(x, y) == x[1] * y[2] < y[1] * x[2]
Le(x, y) == x[1] * y[2] <= y[1] * x[2]
Pos(x) == IsNum(x) /\ x[1] > 0
AbsQ(x) == IF IsNum(x) THEN <<AbsInt(x[1]), x[2]>> ELSE x

(***************************************************************************)
(* src/src/transformations.py                                              *)
(***************************************************************************)
\* CONST_R = 8.314
CONST_R == <<4157, 500>>

\* P = nRT / V
isotherme(V, n, T, np) == Div(Mul(Mul(n, CONST_R), T), V, np)

\* P = P0 * (V0 / V) ** gamma
adiabatique(V, P0, V0, gamma, np) == Mul(P0, Pow(Div(V0, V, np), gamma))

\* Mutant of van_der_waals: the covolume is left out of the first term.
van_der_waals_sans_covolume(V, n, T, a, b, npV, npT) ==
    Sub(Div(Mul(Mul(n, CONST_R), T), V, npV \/ npT),
        Div(Mul(a, Pow(n, Q(2))), Pow(V, Q(2)), npV))

\* P = nRT/(V - nb) - a n^2 / V^2.  npV, npT: V, T is a numpy value.
van_der_waals(V, n, T, a, b, npV, npT) ==
    LET term1 == Div(Mul(Mul(n, CONST_R), T), Sub(V, Mul(n, b)), npV \/ npT)
        term2 == Div(Mul(a, Pow(n, Q(2))), Pow(V, Q(2)), npV)
    IN  Sub(term1, term2)

(***************************************************************************)
(* src/src/gas_models.py.  A gas model object is a record of its fields:   *)
(* classe, n, gamma, R, and a, b for a GazVanDerWaals.                     *)
(***************************************************************************)
\* ModeleGaz.__init__ sets R = 8.314
ModeleGaz(classe, n, gamma) == [classe |-> classe, n |-> n, gamma |-> gamma, R |-> <<4157, 500>>]

GazParfait(n, gamma) == ModeleGaz("GazParfait", n, gamma)

GazVanDerWaals(n, gamma, a, b) ==
    [classe |-> "GazVanDerWaals", n |-> n, gamma |-> gamma, R |-> <<4157, 500>>,
     a |-> a, b |-> b]

pression(gaz, V, T, npV, npT) ==
    IF gaz.classe = "GazParfait"
    THEN isotherme(V, gaz.n, T, npV \/ npT)
    ELSE van_der_waals(V, gaz.n, T, gaz.a, gaz.b, npV, npT)

temperature(gaz, P, V, npP, npV) ==
    IF gaz.classe = "GazParfait"
    THEN Div(Mul(P, V), Mul(gaz.n, gaz.R), npP \/ npV)
    ELSE LET term1 == Add(P, Div(Mul(gaz.a, Pow(gaz.n, Q(2))), Pow(V, Q(2)), npV))
             term2 == Sub(V, Mul(gaz.n, gaz.b))
         IN  Div(Mul(term1, term2), Mul(gaz.n, gaz.R), npP \/ npV)

\* Mutant of pression_adiabatique: the Van der Waals adiabat keeps
\* T (V - nb)^gamma instead of T (V - nb)^(gamma - 1).
pression_adiabatique_exposant(gaz, V, P0, V0, npV, npP0, npV0) ==
    IF gaz.classe = "GazParfait"
    THEN adiabatique(V, P0, V0, gaz.gamma, npV \/ npP0 \/ npV0)
    ELSE LET T0 == temperature(gaz, P0, V0, npP0, npV0)
             nb == Mul(gaz.n, gaz.b)
             T_new == Mul(T0, Pow(Div(Sub(V0, nb), Sub(V, nb), npV0 \/ npV), gaz.gamma))
         IN  pression(gaz, V, T_new, npV, npP0 \/ npV0 \/ npV)

\* GazVanDerWaals.pression_adiabatique: the test V <= n*b has an empty body.
pression_adiabatique(gaz, V, P0, V0, npV, npP0, npV0) ==
    IF gaz.classe = "GazParfait"
    THEN adiabatique(V, P0, V0, gaz.gamma, npV \/ npP0 \/ npV0)
    ELSE LET T0 == temperature(gaz, P0, V0, npP0, npV0)
             nb == Mul(gaz.n, gaz.b)
             T_new == Mul(T0, Pow(Div(Sub(V0, nb), Sub(V, nb), npV0 \/ npV),
                                  Sub(gaz.gamma, Q(1))))
         IN  pression(gaz, V, T_new, npV, npP0 \/ npV0 \/ npV)

\* np.maximum(1e-10, x): every positive rational the model can hold exceeds
\* 1e-10, so the floor applies exactly when x <= 0.  Floor stands for 1e-10.
Floor == <<1, 0 - 1>>
Clamp(x) == IF IsNum(x) /\ x[1] <= 0 THEN Floor ELSE x

\* ModeleGaz.variation_entropie.  The value Cv*ln(xT) + n*R*ln(V_eff/V_ref_eff)
\* is kept as its coefficients and the arguments of the logarithms.
variation_entropie(gaz, T, V, T_ref, V_ref, np) ==
    LET Cv == Div(Mul(gaz.n, gaz.R), Sub(gaz.gamma, Q(1)), FALSE)
        b == Mul(IF "b" \in DOMAIN gaz THEN gaz.b ELSE Q(0), gaz.n)
        xT == Div(T, T_ref, np)
    IN  IF IsRaised(Cv) \/ IsRaised(xT) THEN <<Raised>>
        ELSE <<Cv, xT, Mul(gaz.n, gaz.R), Clamp(Sub(V, b)), Clamp(Sub(V_ref, b))>>

(***************************************************************************)
(* Library functions used by src/src/cycles.py                             *)
(***************************************************************************)
\* Number of samples of an adiabatic path.  The program samples 100 points
\* (the default of obtenir_courbe_adiabatique); exact arithmetic on that many
\* samples is out of reach, so the model samples n_points of them.  simpson
\* below covers an odd and an even number of samples.
n_points == 3

\* An assignment v = e followed by the statements that use v: e is evaluated
\* once.
Soit(e, suite(_)) == suite(e)

\* An array as a sequence of its elements, each evaluated once.
Tableau(f) == f \o <<>>

\* Mutant of linspace: the end point is left out (endpoint=False).
linspace_sans_fin(start, stop, N) ==
    Tableau([i \in 1..N |->
                Add(start, Mul(Q(i - 1), Div(Sub(stop, start), Q(N), TRUE)))])

\* np.linspace(start, stop, N), N >= 1: start + i*step, and for N > 1 the
\* last sample is set to stop itself; for N = 1 the one sample is
\* 0*(stop - start) + start
linspace(start, stop, N) ==
    IF N = 1 THEN <<Add(Mul(Q(0), Sub(stop, start)), start)>>
    ELSE Soit(Div(Sub(stop, start), Q(N - 1), TRUE), LAMBDA step :
             Tableau([i \in 1..N |-> IF i = N THEN stop
                                     ELSE Add(start, Mul(Q(i - 1), step))]))

\* A sum of floats is kept as the sequence of its terms (a Somme): the exact
\* sum of a sampled path does not fit 32-bit integers.  Two equal
\* sequences denote equal sums.
NegS(s) == Tableau([i \in DOMAIN s |-> Neg(s[i])])

\* Twelve times the weight scipy.integrate.simpson gives sample i of N
\* uniformly spaced samples (x = linspace): Simpson's 1-4-2-...-4-1 over 3
\* for an odd N; for an even N that rule on the first N-1 samples plus the
\* three-point correction (5 y[N] + 8 y[N-1] - y[N-2]) / 12 of the last
\* interval; the trapezoid for N = 2.
poids_impair(i, N) == IF i = 1 \/ i = N THEN 4 ELSE IF i % 2 = 0 THEN 16 ELSE 8

poids(i, N) ==
    IF N % 2 = 1 THEN poids_impair(i, N)
    ELSE IF N = 2 THEN 6
    ELSE IF i = N THEN 5
    ELSE IF i = N - 1 THEN poids_impair(i, N - 1) + 8
    ELSE IF i = N - 2 THEN poids_impair(i, N - 1) - 1
    ELSE poids_impair(i, N - 1)

\* scipy.integrate.simpson(y, x=x), as the Somme of its weighted samples
simpson(y, x) ==
    Soit(Len(y), LAMBDA N :
    Soit(Sub(x[2], x[1]), LAMBDA h :
        Tableau([i \in 1..N |-> Mul(Mul(h, Norm(poids(i, N), 12)), y[i])])))

(***************************************************************************)
(* src/src/cycles.py.  A cycle engine is a record of its fields; gaz is    *)
(* the address of its gas model object in the heap tas.  points is a       *)
(* function from corner labels to <<V, P, T>>, with the empty domain for   *)
(* the empty dict.                                                         *)
(***************************************************************************)
Coins == {"A", "B", "C", "D"}
PointsVides == [k \in {} |-> <<>>]

\* The outcome of a method call: the exception it raised ("" for none), and
\* its return value or the points it computed.
Retour(exc, val) == [exc |-> exc, val |-> val]

\* CycleOtto.calculer_points_cycle up to the assignment of self.points: all
\* operands are Python floats.
points_otto(gaz, c) ==
    LET V_A == c.V_max
        P_A == c.P_A
        T_A == c.T_A
        V_B == c.V_min
        V_C == V_B
        T_C == c.T_C
        V_D == V_A
    IN  Soit(pression_adiabatique(gaz, V_B, P_A, V_A, FALSE, FALSE, FALSE), LAMBDA P_B :
        Soit(temperature(gaz, P_B, V_B, FALSE, FALSE), LAMBDA T_B :
        Soit(pression(gaz, V_C, T_C, FALSE, FALSE), LAMBDA P_C :
        Soit(pression_adiabatique(gaz, V_D, P_C, V_C, FALSE, FALSE, FALSE), LAMBDA P_D :
        Soit(temperature(gaz, P_D, V_D, FALSE, FALSE), LAMBDA T_D :
            IF Raised \in {P_B, T_B, P_C, P_D, T_D}
            THEN {Retour("ZeroDivisionError", PointsVides)}
            ELSE {Retour("", [k \in Coins |->
                     CASE k = "A" -> <<V_A, P_A, T_A>>
                       [] k = "B" -> <<V_B, P_B, T_B>>
                       [] k = "C" -> <<V_C, P_C, T_C>>
                       [] k = "D" -> <<V_D, P_D, T_D>>])})))))

\* Mutant of func_p: the target pressure is off by one unit.
func_p_decalee(gaz, v, T_C, P_C) ==
    Sub(pression(gaz, v, T_C, TRUE, FALSE), Add(P_C, Q(1)))

\* func_p of CycleDiesel.calculer_points_cycle; fsolve calls it on an array.
func_p(gaz, v, T_C, P_C) == Sub(pression(gaz, v, T_C, TRUE, FALSE), P_C)

\* Values a non-converged solve may return besides its starting point.
Iteres(c) == {Q(0), c.V_max}

\* scipy.optimize.fsolve(func_p, V_C_guess), as the set of pairs <<x, ier>> it
\* may end with.  ier = 1: converged, x is a root of func_p; any other ier:
\* not converged, x is the last iterate (fsolve only warns).  A guess that is
\* a root is returned as it is.  The iteration itself is not modelled: from
\* another guess the solve may reach a root or give up.  Roots are looked for
\* at the root of nRT/(v - nb) = P_C, which is the only one when a = 0.
fsolve(gaz, c, T_C, P_C, guess) ==
    LET nb == IF gaz.classe = "GazParfait" THEN Q(0) ELSE Mul(gaz.n, gaz.b)
        v0 == Add(nb, Div(Mul(Mul(gaz.n, CONST_R), T_C), P_C, TRUE))
        racines == {v \in {v0} : IsNum(v) /\ func_p(gaz, v, T_C, P_C) = Q(0)}
    IN  IF func_p(gaz, guess, T_C, P_C) = Q(0) THEN {<<guess, 1>>}
        ELSE {<<v, 1>> : v \in racines} \cup {<<v, 5>> : v \in {guess} \cup Iteres(c)}

\* Mutant of resoudre: every solve is free to end differently.
resoudre_a_nouveau(gaz, c, T_C, P_C, guess, memo) == fsolve(gaz, c, T_C, P_C, guess)

\* fsolve is a deterministic function of its arguments: what a first solve
\* returned (memo, with memo[2] # 0) is what a later solve of the same engine
\* returns.
resoudre(gaz, c, T_C, P_C, guess, memo) ==
    IF memo[2] # 0 THEN {memo} ELSE fsolve(gaz, c, T_C, P_C, guess)

\* CycleDiesel.calculer_points_cycle up to the assignment of self.points, as
\* the set of <<outcome, solve>>; solve = memo when fsolve was not reached.
\* V_C is a numpy scalar, and so are the P_D and T_D computed from it.
points_diesel(gaz, c, memo) ==
    LET V_A == c.V_max
        P_A == c.P_A
        T_A == c.T_A
        V_B == c.V_min
        T_C == c.T_C
        V_D == V_A
    IN  Soit(pression_adiabatique(gaz, V_B, P_A, V_A, FALSE, FALSE, FALSE), LAMBDA P_B :
        Soit(temperature(gaz, P_B, V_B, FALSE, FALSE), LAMBDA T_B :
        Soit(P_B, LAMBDA P_C :
        Soit(Mul(V_B, Div(T_C, T_B, FALSE)), LAMBDA V_C_guess :
            IF Raised \in {P_B, T_B, V_C_guess}
            THEN {<<Retour("ZeroDivisionError", PointsVides), memo>>}
            ELSE UNION {
                Soit(s[1], LAMBDA V_C :
                Soit(pression_adiabatique(gaz, V_D, P_C, V_C, FALSE, FALSE, TRUE), LAMBDA P_D :
                Soit(temperature(gaz, P_D, V_D, TRUE, FALSE), LAMBDA T_D :
                    IF Raised \in {P_D, T_D}
                    THEN {<<Retour("ZeroDivisionError", PointsVides), s>>}
                    ELSE {<<Retour("", [k \in Coins |->
                               CASE k = "A" -> <<V_A, P_A, T_A>>
                                 [] k = "B" -> <<V_B, P_B, T_B>>
                                 [] k = "C" -> <<V_C, P_C, T_C>>
                                 [] k = "D" -> <<V_D, P_D, T_D>>]), s>>})))
                : s \in resoudre(gaz, c, T_C, P_C, V_C_guess, memo)}))))

\* Which stored values are numpy scalars: Diesel's V_C comes from fsolve, and
\* its P_D and T_D are computed from V_C.
NpV(c, k) == c.classe = "CycleDiesel" /\ k = "C"
NpP(c, k) == c.classe = "CycleDiesel" /\ k = "D"
NpT(c, k) == c.classe = "CycleDiesel" /\ k = "D"

\* obtenir_courbe_adiabatique(point_depart, point_fin, N)
obtenir_courbe_adiabatique(gaz, c, point_depart, point_fin, N) ==
    IF ~({point_depart, point_fin} \subseteq DOMAIN c.points)
    THEN Retour("KeyError", <<>>)
    ELSE LET V_start == c.points[point_depart][1]
             P_start == c.points[point_depart][2]
             V_end == c.points[point_fin][1]
         IN  Soit(linspace(V_start, V_end, N), LAMBDA V_values :
             Soit(Tableau([i \in 1..N |->
                      pression_adiabatique(gaz, V_values[i], P_start, V_start, TRUE,
                                           NpP(c, point_depart), NpV(c, point_depart))]),
                  LAMBDA P_values :
                 IF \E i \in 1..N : IsRaised(P_values[i])
                 THEN Retour("ZeroDivisionError", <<>>)
                 ELSE Retour("", [V |-> V_values, P |-> P_values])))

\* -simpson(P, x=V) of a sampled path
travail(courbe) == NegS(simpson(courbe.val.P, courbe.val.V))

\* Python float('nan')
nan == NonFinite

\* CycleOtto.calculer_rendement.  W_total is a Somme; abs(W_total) / Q_in is
\* kept as the pair of W_total and Q_in.
rendement_otto(gaz, c) ==
    Soit(obtenir_courbe_adiabatique(gaz, c, "A", "B", n_points), LAMBDA ab :
    Soit(obtenir_courbe_adiabatique(gaz, c, "C", "D", n_points), LAMBDA cd :
        IF ab.exc # "" THEN Retour(ab.exc, <<>>)
        ELSE IF cd.exc # "" THEN Retour(cd.exc, <<>>)
        ELSE LET T_B == c.points["B"][3]
                 T_C == c.points["C"][3]
             IN  Soit(travail(ab), LAMBDA W_ab :
                 Soit(travail(cd), LAMBDA W_cd :
                 Soit(W_ab \o W_cd, LAMBDA W_total :
                 Soit(Div(gaz.R, Sub(gaz.gamma, Q(1)), FALSE), LAMBDA Cv :
                 Soit(Mul(Mul(gaz.n, Cv), Sub(T_C, T_B)), LAMBDA Q_in :
                 Soit([abs |-> W_total, sur |-> Q_in], LAMBDA eta_simpson :
                 Soit(Sub(Q(1), Div(Q(1), Pow(c.tau, Sub(gaz.gamma, Q(1))), FALSE)),
                      LAMBDA eta_th :
                     IF Raised \in {Cv, eta_th} THEN Retour("ZeroDivisionError", <<>>)
                     ELSE Retour("", [W_total |-> W_total, Q_in |-> Q_in,
                                      eta_numerique |-> eta_simpson,
                                      eta_theorique |-> eta_th]))))))))))

\* CycleDiesel.calculer_rendement
rendement_diesel(gaz, c) ==
    Soit(obtenir_courbe_adiabatique(gaz, c, "A", "B", n_points), LAMBDA ab :
    Soit(obtenir_courbe_adiabatique(gaz, c, "C", "D", n_points), LAMBDA cd :
        IF ab.exc # "" THEN Retour(ab.exc, <<>>)
        ELSE IF cd.exc # "" THEN Retour(cd.exc, <<>>)
        ELSE LET V_B == c.points["B"][1]
                 V_C == c.points["C"][1]
                 P_B == c.points["B"][2]
                 T_B == c.points["B"][3]
                 T_C == c.points["C"][3]
             IN  Soit(travail(ab), LAMBDA W_ab :
                 Soit(Mul(Neg(P_B), Sub(V_C, V_B)), LAMBDA W_bc :
                 Soit(travail(cd), LAMBDA W_cd :
                 Soit((W_ab \o <<W_bc>>) \o W_cd, LAMBDA W_total :
                 Soit(Div(Mul(gaz.gamma, gaz.R), Sub(gaz.gamma, Q(1)), FALSE), LAMBDA Cp :
                 Soit(Mul(Mul(gaz.n, Cp), Sub(T_C, T_B)), LAMBDA Q_in :
                 Soit([abs |-> W_total, sur |-> Q_in], LAMBDA eta :
                     IF IsRaised(Cp) THEN Retour("ZeroDivisionError", <<>>)
                     ELSE Retour("", [W_total |-> W_total, Q_in |-> Q_in,
                                      eta_numerique |-> eta,
                                      eta_theorique |-> nan]))))))))))

\* Mutant of calculer_rendement: on an engine without corners the method
\* returns not-a-number results instead of failing.
calculer_rendement_sans_coins(gaz, c) ==
    IF c.points = PointsVides
    THEN Retour("", [W_total |-> <<nan>>, Q_in |-> nan,
                     eta_numerique |-> [abs |-> <<nan>>, sur |-> nan],
                     eta_theorique |-> nan])
    ELSE IF c.classe = "CycleDiesel" THEN rendement_diesel(gaz, c)
    ELSE rendement_otto(gaz, c)

\* calculer_rendement of the engine's class
calculer_rendement(gaz, c) ==
    IF c.classe = "CycleDiesel" THEN rendement_diesel(gaz, c) ELSE rendement_otto(gaz, c)

\* abs(x) < 1e-9, without forming x[1] * 10^9
PetitEcart(x) ==
    IsNum(x) /\ (x[1] = 0 \/ 1000000000 <= (x[2] - 1) \div AbsInt(x[1]))

\* One segment of generer_donnees_entropie: its <<V_space, T_space>>.
segment_entropie(gaz, c, p_start, p_end, N) ==
    LET V_start == c.points[p_start][1]
        P_start == c.points[p_start][2]
        T_start == c.points[p_start][3]
        V_end == c.points[p_end][1]
        T_end == c.points[p_end][3]
        is_isochoric == PetitEcart(Sub(V_end, V_start))
    IN  IF <<p_start, p_end>> \in {<<"A", "B">>, <<"C", "D">>}
        THEN Soit(linspace(V_start, V_end, N), LAMBDA V_space :
             Soit(Tableau([i \in 1..N |->
                      pression_adiabatique(gaz, V_space[i], P_start, V_start, TRUE,
                                           NpP(c, p_start), NpV(c, p_start))]),
                  LAMBDA P_space :
                 <<V_space, Tableau([i \in 1..N |->
                                temperature(gaz, P_space[i], V_space[i], TRUE, TRUE)])>>))
        ELSE IF c.classe = "CycleDiesel" /\ p_start = "B"
        THEN Soit(linspace(V_start, V_end, N), LAMBDA V_space :
                 <<V_space, Tableau([i \in 1..N |->
                                temperature(gaz, P_start, V_space[i], TRUE, TRUE)])>>)
        ELSE IF is_isochoric
        THEN <<Tableau([i \in 1..N |-> V_start]), linspace(T_start, T_end, N)>>
        ELSE <<linspace(V_start, V_end, N), linspace(T_start, T_end, N)>>

Segments == <<<<"A", "B">>, <<"B", "C">>, <<"C", "D">>, <<"D", "A">>>>

\* generer_donnees_entropie(N) on an engine whose points are computed
generer_donnees_entropie(gaz, c, N) ==
    LET V_ref == c.points["A"][1]
        T_ref == c.points["A"][3]
    IN  Soit(Tableau([s \in 1..4 |->
                 segment_entropie(gaz, c, Segments[s][1], Segments[s][2], N)]), LAMBDA VT :
        Soit(Tableau([s \in 1..4 |-> Tableau([i \in 1..N |->
                 variation_entropie(gaz, VT[s][2][i], VT[s][1][i], T_ref, V_ref, TRUE)])]),
             LAMBDA S_data :
        Soit(Tableau([s \in 1..4 |-> VT[s][2]]), LAMBDA T_data :
        Soit(Tableau([s \in 1..4 |-> <<Segments[s][1], "->", Segments[s][2]>>]),
             LAMBDA labels :
            IF \E s \in 1..4 : \E i \in 1..N :
                  S_data[s][i] = <<Raised>> \/ IsRaised(T_data[s][i])
            THEN Retour("ZeroDivisionError", <<>>)
            ELSE Retour("", [S_data |-> S_data, T_data |-> T_data, labels |-> labels])))))

(***************************************************************************)
(* State: one simulation request, as the front ends build it               *)
(* (src/streamlit_app.py 148-159, src/main.py 159-179): a gas model, then  *)
(* a cycle engine on it, then calls of the engine's methods.               *)
(***************************************************************************)
VARIABLES
    tas,         \* heap of gas model objects: address -> record of fields
    modele_gaz,  \* the address the caller passed to the engine's constructor
    cycle,       \* the engine object
    res,         \* the last method call: [op, arg, exc, val]
    solve,       \* <<x, ier>> of the engine's fsolve call; ier = 0: none yet
    st           \* the web front end: st.session_state and the widgets' values

vars == <<tas, modele_gaz, cycle, res, solve, st>>

\* Largest volume of a boundary configuration, in the model's unit
MaxVol == 4
\* Largest sample count asked of generer_donnees_entropie
MaxEchantillons == 2

Adresses == {1, 2}
SansObjet == [classe |-> "None"]

\* n with n*R = 1: the front ends size n from the state A (n = P_A V_A / (R T_A))
N_MOLES == Div(Q(1), CONST_R, FALSE)
Gammas == {Q(2)}
\* a with a*n^2 in {0, 1};  b with n*b in {0, 2}
Attractions == {Q(0), Mul(CONST_R, CONST_R)}
Covolumes == {Q(0), Mul(Q(2), CONST_R)}

GazModeles ==
    {GazParfait(N_MOLES, g) : g \in Gammas}
    \cup {GazVanDerWaals(N_MOLES, g, a, b) : g \in Gammas, a \in Attractions, b \in Covolumes}

T_AMBIANTE == Q(1)
TempCibles == {Q(0), Q(2), Q(16)}
\* P_A: negative, or the ideal-gas pressure n R T_A / V_max of state A
Pressions(V_max) == {Q(0 - 1), Div(T_AMBIANTE, V_max, FALSE)}

\* Mutant of CycleInit: the engine keeps a copy of the gas model, at another
\* address, instead of the object it received.
CycleInit_par_copie(classe, gaz, V_min, V_max, T_A, P_A, T_C_max) ==
    [classe |-> classe, gaz |-> 3 - gaz, V_min |-> V_min, V_max |-> V_max,
     V_A |-> V_max, T_A |-> T_A, P_A |-> P_A, T_C |-> T_C_max,
     points |-> PointsVides, tau |-> Div(V_max, V_min, FALSE)]

\* CycleOtto.__init__ (CycleDiesel inherits it); gaz is the address received.
CycleInit(classe, gaz, V_min, V_max, T_A, P_A, T_C_max) ==
    [classe |-> classe, gaz |-> gaz, V_min |-> V_min, V_max |-> V_max,
     V_A |-> V_max, T_A |-> T_A, P_A |-> P_A, T_C |-> T_C_max,
     points |-> PointsVides, tau |-> Div(V_max, V_min, FALSE)]

\* A Python dict with no key
DictVide == [k \in {} |-> <<>>]

\* The library used without the web front end
SansFrontal == [session_state |-> DictVide, cycle_type |-> "", gas_model |-> "",
                tau |-> Q(0), t_max |-> Q(0)]

\* The engines the model builds.  A Diesel engine on a gas with a # 0 is left
\* out: the root of func_p is then no rational number.
Constructible(classe, g) ==
    classe = "CycleDiesel" /\ g.classe = "GazVanDerWaals" => g.a = Q(0)

Init ==
    \E classe \in {"CycleOtto", "CycleDiesel"}, g \in GazModeles,
       V_min \in 1..MaxVol, V_max \in 1..MaxVol, T_C \in TempCibles :
      \E P_A \in Pressions(Q(V_max)) :
        /\ Constructible(classe, g)
        /\ tas = [a \in Adresses |-> IF a = 1 THEN g ELSE SansObjet]
        /\ modele_gaz = 1
        /\ cycle = CycleInit(classe, modele_gaz, Q(V_min), Q(V_max), T_AMBIANTE, P_A, T_C)
        /\ res = [op |-> "__init__", arg |-> <<>>, exc |-> "", val |-> <<>>]
        /\ solve = <<Q(0), 0>>
        /\ st = SansFrontal

\* self.gaz
Gaz == tas[cycle.gaz]

\* Mutant of points_cycle: CycleDiesel does not override the method and
\* computes Otto's corners.
points_cycle_sans_surcharge(gaz, c, memo) == {<<r, memo>> : r \in points_otto(gaz, c)}

\* calculer_points_cycle of the engine's class, as <<outcome, solve>> pairs
points_cycle(gaz, c, memo) ==
    IF c.classe = "CycleDiesel" THEN points_diesel(gaz, c, memo)
    ELSE {<<r, memo>> : r \in points_otto(gaz, c)}

\* Mutant of affecter_points: the corners are stored as they are computed,
\* so that a failing computation leaves the corner A behind.
affecter_au_fil(c, o) ==
    IF o.exc = "" THEN [c EXCEPT !.points = o.val]
    ELSE [c EXCEPT !.points = [k \in {"A"} |-> <<c.V_max, c.P_A, c.T_A>>]]

\* self.points = {...} is the last statement of calculer_points_cycle: it
\* runs only if nothing raised before.
affecter_points(c, o) == IF o.exc = "" THEN [c EXCEPT !.points = o.val] ELSE c

CalculerPointsCycle ==
    \E o \in points_cycle(Gaz, cycle, solve) :
      /\ cycle' = affecter_points(cycle, o[1])
      /\ res' = [op |-> "calculer_points_cycle", arg |-> <<>>, exc |-> o[1].exc, val |-> <<>>]
      /\ solve' = o[2]
      /\ UNCHANGED <<tas, modele_gaz, st>>

CalculerRendement ==
    \E r \in {calculer_rendement(Gaz, cycle)} :
        /\ res' = [op |-> "calculer_rendement", arg |-> <<>>, exc |-> r.exc, val |-> r.val]
        /\ UNCHANGED <<tas, modele_gaz, cycle, solve, st>>

ObtenirCourbeAdiabatique(point_depart, point_fin) ==
    \E r \in {obtenir_courbe_adiabatique(Gaz, cycle, point_depart, point_fin, n_points)} :
        /\ res' = [op |-> "obtenir_courbe_adiabatique",
                   arg |-> <<point_depart, point_fin>>, exc |-> r.exc, val |-> r.val]
        /\ UNCHANGED <<tas, modele_gaz, cycle, solve, st>>

\* if not self.points: self.calculer_points_cycle(), then the trace
GenererDonneesEntropie(N) ==
    \E o \in IF cycle.points = PointsVides THEN points_cycle(Gaz, cycle, solve)
             ELSE {<<Retour("", cycle.points), solve>>} :
      \E r \in {IF o[1].exc # "" THEN o[1]
                 ELSE generer_donnees_entropie(Gaz, [cycle EXCEPT !.points = o[1].val], N)} :
          /\ cycle' = affecter_points(cycle, o[1])
          /\ res' = [op |-> "generer_donnees_entropie", arg |-> <<N>>, exc |-> r.exc,
                     val |-> IF r.exc = "" THEN r.val ELSE <<>>]
          /\ solve' = o[2]
          /\ UNCHANGED <<tas, modele_gaz, st>>

\* tracer_sur_axe(ax): the same lazy computation, then the two adiabatic
\* paths; the drawing on ax is outside the model.
TracerSurAxe ==
    \E o \in IF cycle.points = PointsVides THEN points_cycle(Gaz, cycle, solve)
             ELSE {<<Retour("", cycle.points), solve>>} :
      LET c == [cycle EXCEPT !.points = o[1].val]
          ab == obtenir_courbe_adiabatique(Gaz, c, "A", "B", n_points)
          cd == obtenir_courbe_adiabatique(Gaz, c, "C", "D", n_points)
          exc == IF o[1].exc # "" THEN o[1].exc
                 ELSE IF ab.exc # "" THEN ab.exc ELSE cd.exc
      IN  /\ cycle' = affecter_points(cycle, o[1])
          /\ res' = [op |-> "tracer_sur_axe", arg |-> <<>>, exc |-> exc, val |-> <<>>]
          /\ solve' = o[2]
          /\ UNCHANGED <<tas, modele_gaz, st>>

Next ==
    \/ CalculerPointsCycle
    \/ CalculerRendement
    \/ \E s \in {<<"A", "B">>, <<"C", "D">>} : ObtenirCourbeAdiabatique(s[1], s[2])
    \/ \E N \in 1..MaxEchantillons : GenererDonneesEntropie(N)
    \/ TracerSurAxe

Spec == Init /\ [][Next]_vars

(***************************************************************************)
(* Direct calls of the gas models.  A GazParfait (address 1) and a         *)
(* GazVanDerWaals (address 2) of the same n and gamma are given the same   *)
(* arguments, taken from the fields of cycle: V = V_min, T = T_C, P0 = P_A,*)
(* V0 = V_max, T_ref = T_A.  res.val is the pair of their results.         *)
(***************************************************************************)
GammasGaz == {Q(2), Q(3)}
PressionsGaz == {Q(0 - 1), Q(3)}

InitGaz ==
    \E g \in GammasGaz, a \in Attractions, b \in Covolumes,
       V_min \in 0..MaxVol, V_max \in 0..MaxVol, T_C \in TempCibles, P_A \in PressionsGaz :
        /\ tas = [adr \in Adresses |-> IF adr = 1 THEN GazParfait(N_MOLES, g)
                                       ELSE GazVanDerWaals(N_MOLES, g, a, b)]
        /\ modele_gaz = 1
        /\ cycle = CycleInit("CycleOtto", modele_gaz, Q(V_min), Q(V_max), T_AMBIANTE, P_A, T_C)
        /\ res = [op |-> "__init__", arg |-> <<>>, exc |-> "", val |-> <<>>]
        /\ solve = <<Q(0), 0>>
        /\ st = SansFrontal

Appel(op, r1, r2) ==
    /\ res' = [op |-> op, arg |-> <<>>, exc |-> "", val |-> <<r1, r2>>]
    /\ UNCHANGED <<tas, modele_gaz, cycle, solve, st>>

AppelPression ==
    /\ res.op = "__init__"
    /\ Appel("pression", pression(tas[1], cycle.V_min, cycle.T_C, FALSE, FALSE),
                         pression(tas[2], cycle.V_min, cycle.T_C, FALSE, FALSE))

\* temperature(P, V) of the P that pression(V, T) returned
AppelTemperatureDePression ==
    /\ res.op = "pression"
    /\ Appel("temperature(pression)",
             temperature(tas[1], res.val[1], cycle.V_min, FALSE, FALSE),
             temperature(tas[2], res.val[2], cycle.V_min, FALSE, FALSE))

AppelTemperature ==
    /\ res.op = "__init__"
    /\ Appel("temperature", temperature(tas[1], cycle.P_A, cycle.V_min, FALSE, FALSE),
                            temperature(tas[2], cycle.P_A, cycle.V_min, FALSE, FALSE))

AppelPressionAdiabatique ==
    /\ res.op = "__init__"
    /\ Appel("pression_adiabatique",
             pression_adiabatique(tas[1], cycle.V_min, cycle.P_A, cycle.V_max, FALSE, FALSE, FALSE),
             pression_adiabatique(tas[2], cycle.V_min, cycle.P_A, cycle.V_max, FALSE, FALSE, FALSE))

AppelVariationEntropie ==
    /\ res.op = "__init__"
    /\ Appel("variation_entropie",
             variation_entropie(tas[1], cycle.T_C, cycle.V_min, cycle.T_A, cycle.V_max, FALSE),
             variation_entropie(tas[2], cycle.T_C, cycle.V_min, cycle.T_A, cycle.V_max, FALSE))

\* An engine of the class on the gas: the outcomes of calculer_points_cycle,
\* each with what calculer_rendement then returns.
resultats_cycle(classe, gaz, c) ==
    IF IsRaised(c.tau) THEN {<<Retour("ZeroDivisionError", PointsVides)>>}
    ELSE {<<o[1], calculer_rendement(gaz, affecter_points([c EXCEPT !.classe = classe], o[1]))>> :
             o \in points_cycle(gaz, [c EXCEPT !.classe = classe], <<Q(0), 0>>)}

AppelCycle(classe) ==
    /\ res.op = "__init__"
    /\ tas[2].gamma \in Gammas
    /\ Constructible(classe, tas[2])
    /\ Appel(classe, resultats_cycle(classe, tas[1], cycle),
                     resultats_cycle(classe, tas[2], cycle))

NextGaz ==
    \/ AppelPression
    \/ AppelTemperatureDePression
    \/ AppelTemperature
    \/ AppelPressionAdiabatique
    \/ AppelVariationEntropie
    \/ \E classe \in {"CycleOtto", "CycleDiesel"} : AppelCycle(classe)

SpecGaz == InitGaz /\ [][NextGaz]_vars

(***************************************************************************)
(* src/streamlit_app.py.  Streamlit runs the script from top to bottom at  *)
(* every interaction (a rerun); st.session_state outlives the reruns.  A   *)
(* button is True in the rerun its press starts and in no other.  One      *)
(* action is one rerun.  The gas and the engine are built anew by each     *)
(* rerun; cycle, tas, res and solve hold those of the last one.            *)
(***************************************************************************)
\* Python values of st.session_state
None == <<"None">>
Vrai == <<"True">>
Faux == <<"False">>
\* bool(v)
truthy(v) == v \notin {None, Faux}
\* st.session_state.get(k)
get(ss, k) == IF k \in DOMAIN ss THEN ss[k] ELSE None
\* st.session_state[k] = v
poser(ss, k, v) == [x \in DOMAIN ss \cup {k} |-> IF x = k THEN v ELSE ss[x]]

\* Widget values (the sliders' ranges scaled to the model's)
TypesCycle == {"Otto (Beau de Rochas)", "Diesel"}
ModelesGaz == {"Gaz Parfait", "Van der Waals (N2)"}
TauxCurseur == {Q(2), Q(4)}
TempCurseur == {Q(2), Q(16)}

\* Physical constants of the script: V_MAX, and P_A with
\* n_moles = (P_A * V_MAX) / (R * T_A), that is n R T_A = P_A V_MAX
V_MAX == Q(4)
P_A == Div(T_AMBIANTE, V_MAX, FALSE)

\* if 'ref_curves' not in st.session_state: ...
initialiser_session(ss) ==
    IF "ref_curves" \notin DOMAIN ss
    THEN poser(poser(ss, "ref_curves", None), "ref_name", None)
    ELSE ss

\* if col_ref1.button("Figer Ref."): ...
bouton_figer(ss, presse) ==
    IF presse THEN poser(ss, "ref_capture_trigger", Vrai) ELSE ss

\* if col_ref2.button("Effacer"): ...
bouton_effacer(ss, presse) ==
    IF presse THEN poser(poser(ss, "ref_curves", None), "ref_name", None) ELSE ss

\* gaz = GazParfait(...) or GazVanDerWaals(...): the covolume is scaled so
\* that one slider position has v_min = n*b
gaz_du_script(gas_model) ==
    IF gas_model = "Gaz Parfait" THEN GazParfait(N_MOLES, Q(2))
    ELSE GazVanDerWaals(N_MOLES, Q(2), Q(0), Mul(Q(2), CONST_R))

\* cycle_obj = CycleOtto(...) or CycleDiesel(...), with v_min = V_MAX / tau
cycle_du_script(w) ==
    CycleInit(IF w.cycle_type = "Otto (Beau de Rochas)" THEN "CycleOtto" ELSE "CycleDiesel",
              1, Div(V_MAX, w.tau, FALSE), V_MAX, T_AMBIANTE, P_A, w.t_max)

\* ref_data of the reference capture: the four P-V segments of cycle_obj
ref_data(gaz, c) ==
    Soit(obtenir_courbe_adiabatique(gaz, c, "A", "B", n_points), LAMBDA ab :
    Soit(obtenir_courbe_adiabatique(gaz, c, "C", "D", n_points), LAMBDA cd :
        IF ab.exc # "" THEN Retour(ab.exc, <<>>)
        ELSE IF cd.exc # "" THEN Retour(cd.exc, <<>>)
        ELSE Retour("", <<<<ab.val.V, ab.val.P>>,
                          <<<<c.points["B"][1], c.points["C"][1]>>,
                            <<c.points["B"][2], c.points["C"][2]>>>>,
                          <<cd.val.V, cd.val.P>>,
                          <<<<c.points["D"][1], c.points["A"][1]>>,
                            <<c.points["D"][2], c.points["A"][2]>>>>>>)))

\* Mutant of capture_reference: the capture trigger is left as it is.
capture_reference_sans_remise(ss, w, gaz, c) ==
    Soit(ref_data(gaz, c), LAMBDA d :
        IF ~truthy(get(ss, "ref_capture_trigger"))
        THEN [ss |-> ss, exc |-> "", toast |-> FALSE]
        ELSE [ss |-> poser(poser(ss, "ref_name", <<"val", w.cycle_type, w.tau>>),
                           "ref_curves", <<"val", d.val>>),
              exc |-> d.exc, toast |-> TRUE])

\* if st.session_state.get('ref_capture_trigger'): ... inside the try block:
\* ref_name is assigned first, then the curves are computed, then ref_curves
\* and the trigger are assigned and the toast is shown
capture_reference(ss, w, gaz, c) ==
    Soit(ref_data(gaz, c), LAMBDA d :
        IF ~truthy(get(ss, "ref_capture_trigger"))
        THEN [ss |-> ss, exc |-> "", toast |-> FALSE]
        ELSE IF d.exc # ""
        THEN [ss |-> poser(ss, "ref_name", <<"val", w.cycle_type, w.tau>>),
              exc |-> d.exc, toast |-> FALSE]
        ELSE [ss |-> poser(poser(poser(ss, "ref_name", <<"val", w.cycle_type, w.tau>>),
                                 "ref_curves", <<"val", d.val>>),
                           "ref_capture_trigger", Faux),
              exc |-> "", toast |-> TRUE])

\* One run of the script with the widget values w; bouton is the button
\* whose press started it ("aucun": a widget changed).  The except clause
\* shows the error and stops the script; what follows the try block reads
\* the session state and does not write it.
Rerun(bouton, w) ==
    \E o \in points_cycle(gaz_du_script(w.gas_model), cycle_du_script(w), <<Q(0), 0>>) :
      \E c \in {affecter_points(cycle_du_script(w), o[1])} :
        \E r \in {IF o[1].exc # "" THEN o[1]
                   ELSE calculer_rendement(gaz_du_script(w.gas_model), c)} :
          \E ss \in {bouton_effacer(bouton_figer(initialiser_session(st.session_state),
                                                  bouton = "figer"),
                                     bouton = "effacer")} :
            \E k \in {IF r.exc # "" THEN [ss |-> ss, exc |-> r.exc, toast |-> FALSE]
                       ELSE capture_reference(ss, w, gaz_du_script(w.gas_model), c)} :
              /\ st' = [session_state |-> k.ss, cycle_type |-> w.cycle_type,
                        gas_model |-> w.gas_model, tau |-> w.tau, t_max |-> w.t_max]
              /\ tas' = [a \in Adresses |-> IF a = 1 THEN gaz_du_script(w.gas_model)
                                            ELSE SansObjet]
              /\ modele_gaz' = 1
              /\ cycle' = c
              /\ solve' = o[2]
              /\ res' = [op |-> "rerun", arg |-> <<bouton>>, exc |-> k.exc,
                         val |-> [toast |-> k.toast]]

Widgets(s) == [cycle_type |-> s.cycle_type, gas_model |-> s.gas_model,
               tau |-> s.tau, t_max |-> s.t_max]

\* The page is loaded, or the user moves a widget: a rerun without a button
ChangerParametres ==
    \E ct \in TypesCycle, gm \in ModelesGaz, ta \in TauxCurseur, tm \in TempCurseur :
        Rerun("aucun", [cycle_type |-> ct, gas_model |-> gm, tau |-> ta, t_max |-> tm])

\* The buttons exist once the page has run
PresserFiger == res.op = "rerun" /\ Rerun("figer", Widgets(st))

PresserEffacer == res.op = "rerun" /\ Rerun("effacer", Widgets(st))

\* A new session: no key in st.session_state, the widgets at their defaults,
\* no object built yet
InitRef ==
    /\ st = [session_state |-> DictVide, cycle_type |-> "Otto (Beau de Rochas)",
             gas_model |-> "Gaz Parfait", tau |-> Q(4), t_max |-> Q(16)]
    /\ tas = [a \in Adresses |-> SansObjet]
    /\ modele_gaz = 1
    /\ cycle = SansObjet
    /\ res = [op |-> "session", arg |-> <<>>, exc |-> "", val |-> <<>>]
    /\ solve = <<Q(0), 0>>

NextRef ==
    \/ ChangerParametres
    \/ PresserFiger
    \/ PresserEffacer

SpecRef == InitRef /\ [][NextRef]_vars

(***************************************************************************)
(* Properties                                                              *)
(***************************************************************************)
EstVdW == Gaz.classe = "GazVanDerWaals"
\* n*b of the engine's gas (0 for a GazParfait)
nb_gaz == IF EstVdW THEN Mul(Gaz.n, Gaz.b) ELSE Q(0)

\* An input the error taxonomy calls an invalid configuration
ConfigurationInvalide ==
    \/ Le(cycle.tau, Q(1))
    \/ Le(cycle.T_C, cycle.T_A)
    \/ \E x \in {cycle.V_min, cycle.V_max, cycle.P_A, cycle.T_A, cycle.T_C} : x[1] < 0

\* C1: the points mapping is never partial: it is empty or holds the four
\* corners, and a calculer_points_cycle that raises leaves it as it was.
C1_PointsJamaisPartiels ==
    /\ [](DOMAIN cycle.points \in {{}, Coins})
    /\ [][res'.op = "calculer_points_cycle" /\ res'.exc # ""
            => cycle'.points = cycle.points]_vars

\* C1 witness: on a configuration the input rules allow, a computation has
\* raised and exposed no corner.
C1_Temoin ==
    /\ ~ConfigurationInvalide
    /\ res.op = "calculer_points_cycle"
    /\ res.exc = "ZeroDivisionError"
    /\ cycle.points = PointsVides

\* C2: an invalid boundary configuration (tau <= 1, T_max <= T_A, a negative
\* input) is rejected before any corner is computed: no method of its engine
\* computes points or returns a result.
C2_ConfigurationRejetee ==
    ConfigurationInvalide =>
        /\ cycle.points = PointsVides
        /\ res.op # "__init__" => res.exc # ""

\* C3: on a Van der Waals gas, a pressure evaluation at a volume V <= n*b
\* fails: no corner is computed from a V_min or V_max at or below n*b, and
\* no adiabatic path is returned that has a sample at or below n*b.
C3_CovolumeEchoue ==
    EstVdW =>
        /\ (\E v \in {cycle.V_min, cycle.V_max} : Le(v, nb_gaz))
              => cycle.points = PointsVides
        /\ res.op = "obtenir_courbe_adiabatique" /\ res.exc = ""
              => \A i \in DOMAIN res.val.V :
                    IsNum(res.val.V[i]) => Lt(nb_gaz, res.val.V[i])

\* C4: every stored corner has V > 0, P > 0 and T > 0, and V - n*b > 0 on a
\* Van der Waals gas.
C4_CoinsPhysiques ==
    \A k \in DOMAIN cycle.points :
        /\ Pos(cycle.points[k][1])
        /\ Pos(cycle.points[k][2])
        /\ Pos(cycle.points[k][3])
        /\ Pos(Sub(cycle.points[k][1], nb_gaz))

\* C5: a Diesel solve that did not converge (ier # 1) is reported as a
\* ConvergenceFailure, and no corner computed from its iterate is stored.
C5_NonConvergenceSignalee ==
    cycle.classe = "CycleDiesel" /\ solve[2] \notin {0, 1}
        => /\ cycle.points = PointsVides
           /\ res.op = "calculer_points_cycle" => res.exc = "ConvergenceFailure"

\* C6: eta_theorique is a number only for an Otto cycle on an ideal gas.
C6_EtaTheoriqueReserve ==
    res.op = "calculer_rendement" /\ res.exc = "" /\ IsNum(res.val.eta_theorique)
        => cycle.classe = "CycleOtto" /\ Gaz.classe = "GazParfait"

\* C7: a corner that has been written is never changed, and the mapping
\* only ever changes from empty to the four corners.
C7_CoinsEcritsUneFois ==
    [][/\ \A k \in DOMAIN cycle.points :
             k \in DOMAIN cycle'.points /\ cycle'.points[k] = cycle.points[k]
       /\ cycle'.points # cycle.points
             => cycle.points = PointsVides /\ DOMAIN cycle'.points = Coins]_vars

\* C7 witness: the corners of a Diesel cycle are stored and a later method
\* of the engine has returned.
C7_Temoin ==
    /\ ~ConfigurationInvalide
    /\ cycle.classe = "CycleDiesel"
    /\ solve[2] = 1
    /\ cycle.points # PointsVides
    /\ res.op = "generer_donnees_entropie"
    /\ res.exc = ""

\* C8: no engine operation changes a field of the gas model; the engine
\* holds the object the caller passed, and a gas model has no field that
\* refers to a cycle.
C8_GazInchange ==
    /\ [](cycle.gaz = modele_gaz)
    /\ [](DOMAIN Gaz \subseteq {"classe", "n", "gamma", "R", "a", "b"})
    /\ [][tas' = tas]_vars

\* C8 witness: the engine has computed a result from its gas model.
C8_Temoin ==
    /\ ~ConfigurationInvalide
    /\ cycle.gaz = modele_gaz
    /\ res.op = "calculer_rendement"
    /\ res.exc = ""
    /\ EstVdW

\* A physically valid argument of the gas at the address: V > n*b (V > 0 for
\* a GazParfait)
VolumeValide(adr, V) ==
    Pos(Sub(V, IF tas[adr].classe = "GazVanDerWaals"
               THEN Mul(tas[adr].n, tas[adr].b) ELSE Q(0)))

\* C9: for both gas models and every physically valid (V, T),
\* temperature(pression(V, T), V) = T.
C9_AllerRetour ==
    res.op = "temperature(pression)" /\ Pos(cycle.V_min) /\ Pos(cycle.T_C)
        => \A adr \in Adresses : VolumeValide(adr, cycle.V_min) => res.val[adr] = cycle.T_C

\* C9 witness: the round trip on a Van der Waals gas with a # 0 and b # 0.
C9_Temoin ==
    /\ res.op = "temperature(pression)"
    /\ tas[2].a # Q(0) /\ tas[2].b # Q(0)
    /\ VolumeValide(2, cycle.V_min) /\ Pos(cycle.T_C)
    /\ res.val[2] = cycle.T_C

Degenere == tas[2].a = Q(0) /\ tas[2].b = Q(0)

\* C10 as stated: with a = 0 and b = 0 the two gas models give the same
\* result for every input.
C10_MemeResultatToutArgument ==
    Degenere /\ res.op # "__init__" => res.val[1] = res.val[2]

\* C10 amended: with a = 0 and b = 0 the two gas models give the same result
\* for every input whose volumes and temperatures are positive.
C10_MemeResultat ==
    Degenere /\ res.op # "__init__"
             /\ Pos(cycle.V_min) /\ Pos(cycle.V_max) /\ Pos(cycle.T_A) /\ Pos(cycle.T_C)
        => res.val[1] = res.val[2]

\* C10 witness: a Diesel cycle computed on both gases, with its efficiency.
C10_Temoin ==
    /\ Degenere /\ res.op = "CycleDiesel"
    /\ Pos(cycle.V_min) /\ Pos(cycle.V_max) /\ Pos(cycle.T_A) /\ Pos(cycle.T_C)
    /\ \E r \in res.val[2] : r[1].exc = "" /\ r[2].exc = ""

\* C11: for a Diesel cycle on an ideal gas whose isobaric equation has a root
\* (T_C # 0), the solve converges, the stored corner C has
\* V_C = V_B * (T_C / T_B), and P_C = P_B.
C11_VolumeFermeDiesel ==
    cycle.classe = "CycleDiesel" /\ Gaz.classe = "GazParfait"
    /\ cycle.points # PointsVides /\ cycle.T_C # Q(0)
        => /\ solve[2] = 1
           /\ cycle.points["C"][1] =
                  Mul(cycle.points["B"][1],
                      Div(cycle.points["C"][3], cycle.points["B"][3], FALSE))
           /\ cycle.points["C"][2] = cycle.points["B"][2]

\* C11 witness: a Diesel cycle on an ideal gas, on a configuration the input
\* rules allow, with an isobaric leg that changes the volume.
C11_Temoin ==
    /\ ~ConfigurationInvalide
    /\ cycle.classe = "CycleDiesel" /\ Gaz.classe = "GazParfait"
    /\ cycle.points # PointsVides
    /\ cycle.points["C"][1] # cycle.points["B"][1]

\* A value of variation_entropie is zero: with k = n*R / Cv = gamma - 1,
\* Cv*ln(xT) + n*R*ln(r) = Cv*ln(xT * r^k), which is 0 iff xT * r^k = 1.
DeltaS_nul(ds) ==
    /\ ds # <<Raised>>
    /\ Pos(ds[2])
    /\ Mul(ds[2], Pow(IF ds[4] = ds[5] THEN Q(1) ELSE Div(ds[4], ds[5], TRUE),
                      Div(ds[3], ds[1], TRUE))) = Q(1)

\* C12 (on configurations the input rules allow): in the entropy trace, the
\* first sample of segment A->B and the last sample of segment D->A have
\* Delta S = 0.
C12_EntropieNulleEnA ==
    ~ConfigurationInvalide /\ Pos(cycle.P_A)
    /\ res.op = "generer_donnees_entropie" /\ res.exc = ""
        => /\ DeltaS_nul(res.val.S_data[1][1])
           /\ DeltaS_nul(res.val.S_data[4][Len(res.val.S_data[4])])

\* The configuration passes the input rules
ConfigurationValide == ~ConfigurationInvalide /\ Pos(cycle.P_A)

\* C13: for an Otto cycle on an ideal gas with tau in [4, 25] and T_max > T_A,
\* eta_numerique agrees with eta_theorique; stated here as what agreement
\* within 1e-3 needs at least: eta_theorique is a positive number and
\* eta_numerique = abs(W_total) / Q_in is positive too (W_total # 0, Q_in > 0).
C13_RendementsAccordes ==
    cycle.classe = "CycleOtto" /\ Gaz.classe = "GazParfait"
    /\ ConfigurationValide
    /\ Le(Q(4), cycle.tau) /\ Le(cycle.tau, Q(25))
    /\ res.op = "calculer_rendement" /\ res.exc = ""
        => /\ Pos(res.val.eta_theorique)
           /\ \E i \in DOMAIN res.val.eta_numerique.abs :
                  res.val.eta_numerique.abs[i] # Q(0)
           /\ Pos(res.val.eta_numerique.sur)

\* x equals y within a relative tolerance of 1e-6 (without forming 10^6 * x)
Proche(x, y) ==
    /\ IsNum(x) /\ IsNum(y)
    /\ Soit(AbsQ(Sub(x, y)), LAMBDA d :
           d[1] = 0 \/ (y[1] # 0 /\ 1000000 <= (d[2] * AbsInt(y[1])) \div (d[1] * y[2])))

\* C14: on a valid configuration with computed corners, the cycle closes on
\* A: the stored corner A is (V_max, P_A, T_A), V_D = V_A, and the gas's
\* equation of state gives back the stored state, temperature(P_A, V_A) = T_A
\* and pression(V_A, T_A) = P_A, within tolerance.
C14_FermetureSurA ==
    ConfigurationValide /\ cycle.points # PointsVides
        => /\ cycle.points["A"] = <<cycle.V_max, cycle.P_A, cycle.T_A>>
           /\ cycle.points["D"][1] = cycle.points["A"][1]
           /\ Proche(temperature(Gaz, cycle.points["A"][2], cycle.points["A"][1],
                                 FALSE, FALSE), cycle.points["A"][3])
           /\ Proche(pression(Gaz, cycle.points["A"][1], cycle.points["A"][3],
                              FALSE, FALSE), cycle.points["A"][2])

\* The float a Somme stands for: its terms added up
RECURSIVE Total(_)
Total(s) == IF s = <<>> THEN Q(0) ELSE Add(Head(s), Total(Tail(s)))

\* Every pressure sampled on the two adiabatic legs is positive
PressionsPositives ==
    \A s \in {<<"A", "B">>, <<"C", "D">>} :
        Soit(obtenir_courbe_adiabatique(Gaz, cycle, s[1], s[2], n_points), LAMBDA courbe :
            courbe.exc = "" /\ \A i \in DOMAIN courbe.val.P : Pos(courbe.val.P[i]))

\* C15: when calculer_rendement has returned on a valid configuration whose
\* corners and sampled adiabatic pressures are all positive, the work of leg A->B is
\* positive, the work of leg C->D is negative, and W_total is their sum, plus
\* -P_B * (V_C - V_B) on a Diesel cycle.
C15_SignesDesTravaux ==
    ConfigurationValide /\ res.op = "calculer_rendement" /\ res.exc = ""
    /\ (\A k \in Coins : \A j \in 1..3 : Pos(cycle.points[k][j]))
    /\ PressionsPositives
        => Soit(travail(obtenir_courbe_adiabatique(Gaz, cycle, "A", "B", n_points)),
                LAMBDA W_ab :
           Soit(travail(obtenir_courbe_adiabatique(Gaz, cycle, "C", "D", n_points)),
                LAMBDA W_cd :
           Soit(Mul(Neg(cycle.points["B"][2]),
                    Sub(cycle.points["C"][1], cycle.points["B"][1])), LAMBDA W_bc :
               /\ Pos(Total(W_ab))
               /\ Pos(Neg(Total(W_cd)))
               /\ Total(res.val.W_total) =
                      IF cycle.classe = "CycleDiesel"
                      THEN Add(Add(Total(W_ab), W_bc), Total(W_cd))
                      ELSE Add(Total(W_ab), Total(W_cd)))))

\* Corners k of every successful computation of the two classes on the
\* engine's gas and configuration (Diesel's where the model has its solve)
CoinsCalcules(k) ==
    {o.val[k] : o \in {r \in points_otto(Gaz, cycle) : r.exc = ""}}
    \cup IF Constructible("CycleDiesel", Gaz)
         THEN {d[1].val[k] :
                  d \in {r \in points_diesel(Gaz, cycle, solve) : r[1].exc = ""}}
         ELSE {}

\* C16: on the same gas and configuration the two classes compute the same
\* corners A and B (the stored ones); from C on, Otto has V_C = V_B and
\* P_C = pression(V_min, T_C), Diesel has P_C = P_B and V_C the value its
\* solve returned; both have V_D = V_A = V_max and T_C the imposed target.
C16_OttoDieselMemeDepart ==
    cycle.points # PointsVides
        => /\ CoinsCalcules("A") = {cycle.points["A"]}
           /\ CoinsCalcules("B") = {cycle.points["B"]}
           /\ IF cycle.classe = "CycleDiesel"
              THEN /\ cycle.points["C"][2] = cycle.points["B"][2]
                   /\ cycle.points["C"][1] = solve[1] /\ solve[2] # 0
              ELSE /\ cycle.points["C"][1] = cycle.points["B"][1]
                   /\ cycle.points["C"][2] =
                          pression(Gaz, cycle.V_min, cycle.T_C, FALSE, FALSE)
           /\ cycle.points["D"][1] = cycle.points["A"][1]
           /\ cycle.points["A"][1] = cycle.V_max
           /\ cycle.points["C"][3] = cycle.T_C

\* C16 witness: a Diesel engine on a valid configuration with stored corners
\* whose corner C is not the one Otto computes from the same A and B.
C16_Temoin ==
    /\ ConfigurationValide /\ cycle.classe = "CycleDiesel"
    /\ cycle.points # PointsVides
    /\ \E o \in points_otto(Gaz, cycle) :
           /\ o.exc = "" /\ o.val["B"] = cycle.points["B"]
           /\ o.val["C"][1] # cycle.points["C"][1]
           /\ o.val["C"][2] # cycle.points["C"][2]

\* Sample i of N uniformly spaced samples from a to b
Uniforme(a, b, i, N) ==
    IF N = 1 THEN a ELSE Add(a, Div(Mul(Q(i - 1), Sub(b, a)), Q(N - 1), TRUE))

\* The trace val of generer_donnees_entropie(N) on engine c: four segments
\* labelled in traversal order, N samples each; an isochoric segment has the
\* volume of its first corner in every Delta S and T uniform between its
\* corners' temperatures; Diesel's B->C has T = temperature(P_B, V) on V
\* uniform between V_B and V_C.
TraceConforme(gaz, c, val, N) ==
    LET nb == IF gaz.classe = "GazVanDerWaals" THEN Mul(gaz.n, gaz.b) ELSE Q(0)
        isochores == IF c.classe = "CycleDiesel" THEN {4} ELSE {2, 4}
        depart(s) == c.points[Segments[s][1]]
        arrivee(s) == c.points[Segments[s][2]]
    IN  /\ Len(val.S_data) = 4 /\ Len(val.T_data) = 4
        /\ val.labels = <<<<"A", "->", "B">>, <<"B", "->", "C">>,
                          <<"C", "->", "D">>, <<"D", "->", "A">>>>
        /\ \A s \in 1..4 : Len(val.S_data[s]) = N /\ Len(val.T_data[s]) = N
        /\ \A s \in isochores : \A i \in 1..N :
               /\ val.S_data[s][i][4] = Clamp(Sub(depart(s)[1], nb))
               /\ IsNum(depart(s)[3]) /\ IsNum(arrivee(s)[3])
                      => val.T_data[s][i] = Uniforme(depart(s)[3], arrivee(s)[3], i, N)
        /\ c.classe = "CycleDiesel" /\ IsNum(depart(2)[1]) /\ IsNum(arrivee(2)[1])
               => \A i \in 1..N :
                      val.T_data[2][i] =
                          temperature(gaz, depart(2)[2],
                                      Uniforme(depart(2)[1], arrivee(2)[1], i, N),
                                      TRUE, TRUE)

\* The last sample of each segment is the first sample of the next one
TraceContinue(val, N) ==
    \A s \in 1..3 :
        /\ val.S_data[s][N] = val.S_data[s + 1][1]
        /\ val.T_data[s][N] = val.T_data[s + 1][1]

C18_ReferenceFigee ==
    [][res'.op = "rerun" =>
         LET avant == st.session_state
             apres == st'.session_state
             ref_curves == get(apres, "ref_curves")
             ref_name == get(apres, "ref_name")
             demande == truthy(get(avant, "ref_capture_trigger")) \/ res'.arg = <<"figer">>
         IN  /\ ref_curves # None => ref_curves[1] = "val" /\ Len(ref_curves[2]) = 4
             /\ truthy(ref_name) <=> truthy(ref_curves)
             /\ res'.val.toast \/ ref_curves \notin {None, get(avant, "ref_curves")}
                    => res'.exc = ""
             /\ res'.exc = "" => ~truthy(get(apres, "ref_capture_trigger"))
             /\ demande /\ res'.exc # "" => get(apres, "ref_capture_trigger") = Vrai
             /\ demande /\ res'.exc = ""
                    => /\ res'.val.toast
                       /\ ref_curves = <<"val", ref_data(Gaz', cycle').val>>
                       /\ ref_name = <<"val", st'.cycle_type, st'.tau>>]_vars

\* C18 witness: a rerun started by no button succeeded and took the snapshot:
\* the capture was pending from a failed rerun.
C18_Temoin ==
    /\ res.op = "rerun" /\ res.arg = <<"aucun">> /\ res.exc = ""
    /\ res.val.toast
    /\ get(st.session_state, "ref_curves") = <<"val", ref_data(Gaz, cycle).val>>
    /\ get(st.session_state, "ref_capture_trigger") = Faux

\* C19: on every configuration that passes the input rules, of either class,
\* calculer_rendement returns Q_in > 0 and 0 < eta_numerique < 1, that is
\* 0 < abs(W_total) < Q_in.
C19_RendementEntreZeroEtUn ==
    ConfigurationValide /\ res.op = "calculer_rendement" /\ res.exc = ""
        => /\ Pos(res.val.Q_in)
           /\ Pos(AbsQ(Total(res.val.eta_numerique.abs)))
           /\ Lt(AbsQ(Total(res.val.eta_numerique.abs)), res.val.eta_numerique.sur)

\* C20: on an engine without corners, calculer_rendement and
\* obtenir_courbe_adiabatique fail on the missing corner and change nothing
\* of the engine and its gas, while generer_donnees_entropie and
\* tracer_sur_axe do what calculer_points_cycle does to the engine; on an
\* engine with corners, generer_donnees_entropie, calculer_rendement and
\* obtenir_courbe_adiabatique leave points as it is.
C20_EffetsSurLesCoins ==
    [][/\ cycle.points = PointsVides
          /\ res'.op \in {"calculer_rendement", "obtenir_courbe_adiabatique"}
              => /\ res'.exc = "KeyError"
                 /\ cycle' = cycle /\ tas' = tas /\ solve' = solve
       /\ cycle.points = PointsVides
          /\ res'.op \in {"generer_donnees_entropie", "tracer_sur_axe"}
              => \E o \in points_cycle(Gaz, cycle, solve) :
                     /\ cycle' = affecter_points(cycle, o[1])
                     /\ solve' = o[2]
                     /\ o[1].exc # "" => res'.exc = o[1].exc
       /\ cycle.points # PointsVides
          /\ res'.op \in {"generer_donnees_entropie", "calculer_rendement",
                          "obtenir_courbe_adiabatique"}
              => cycle'.points = cycle.points]_vars

\* C20 witness: calculer_rendement has failed on an engine without corners,
\* on a valid configuration.
C20_Temoin ==
    /\ ConfigurationValide
    /\ res.op = "calculer_rendement" /\ res.exc = "KeyError"
    /\ cycle.points = PointsVides

====
